---- MODULE Spec2Model ----
(***************************************************************************)
(* Model of the camscanner package (src/backend/scripts/crop/camscanner):  *)
(* CamScanner.scan, DocumentTypeDetector, the fold arbitration, the three  *)
(* geometry processors and the geometry helpers of utils.py.               *)
(*                                                                         *)
(* Numbers.  Pixel coordinates of a page contour are kept in half-pixel    *)
(* units (a contour may be an int32 or a float32 array); int() is the      *)
(* truncation Px.  A fold quality is kept in thousandths (600 is 0.6), a   *)
(* classification confidence in ten-thousandths (8000 is 0.8), a ratio as  *)
(* a pair <<numerator, denominator>> compared by cross-multiplication.     *)
(* The float comparisons of the source are modelled as exact rational      *)
(* comparisons.                                                            *)
(***************************************************************************)
EXTENDS Integers, Sequences, FiniteSets, TLC

VARIABLES
    pc,       \* the number of calls that have returned
    config,   \* CamScanner.config: debug, quality_threshold, fold_border
    image,    \* the image handed to scan() and what the external primitives
              \* (loader, boundary detector, fold estimators, warp) yield on it
    det,      \* what DocumentTypeDetector.detect returned (or that it raised)
    meta,     \* the detector's metadata dict as it is when scan() returns
    proc,     \* what processor.process returned
    result,   \* the ScanResult scan() returned
    args,     \* a direct call of a helper: its arguments
    ret,      \* a direct call of a helper: its return value
    threads   \* callers running scan() at the same time on one scanner: each
              \* caller's position in scan() and its local variables

vars == <<pc, config, image, det, meta, proc, result, args, ret, threads>>

-----------------------------------------------------------------------------
(* Bounds of the model *)

\* Largest number of scan() calls in one behaviour.
MaxScans == 2
\* Corner x-coordinates (half-pixels) drawn for calculate_fold_position_ratio.
MaxCoord == 6
\* Largest fold x (pixels) drawn for calculate_fold_position_ratio.
MaxFoldX == 4
\* Largest page width (pixels) drawn for _classify_document.
MaxPageWidth == 10
\* Corrected-image widths 1..MaxWarpWidth drawn for direct calls of process().
MaxWarpWidth == 8
\* Largest image width drawn for split_at_fold.
MaxSplitWidth == 5
\* Largest fold_border drawn for split_at_fold.
MaxSplitBorder == 3
\* Number of callers running scan() at the same time on one scanner.
MaxThreads == 2
\* Largest number of segments handed to _cluster_lines_by_position.
MaxLines == 4
\* Largest segment midpoint x (half-pixels) drawn for _cluster_lines_by_position.
MaxLineX == 7
\* Largest number of segments in a cluster handed to _calculate_line_quality.
MaxClusterLines == 6

-----------------------------------------------------------------------------
(* Program constants *)

\* scanner.py:155, detectors.py:41 -- quality_threshold default 0.6, in thousandths
DefaultQualityThreshold == 600
\* scanner.py:157, processors.py:35 -- fold_border default
DefaultFoldBorder == 150
\* utils.py:239 -- min_area = img_area * 0.10, in percent
MinAreaPct == 10
\* utils.py:240 -- max_area = img_area * 0.98, in percent
MaxAreaPct == 98
\* detectors.py:208 -- page_covers_full_image(..., threshold=0.85), in percent
CoveragePct == 85
\* utils.py:245 -- page_covers_full_image's own default threshold 0.9, in percent
DefaultCoveragePct == 90
\* detectors.py:146 -- confidence of "single", 0.8, in ten-thousandths
SingleConfidence == 8000

-----------------------------------------------------------------------------
(* Arithmetic helpers *)

Abs(n) == IF n < 0 THEN -n ELSE n
SetMin(S) == CHOOSE m \in S : \A s \in S : m <= s
SetMax(S) == CHOOSE m \in S : \A s \in S : s <= m
Min2(a, b) == IF a <= b THEN a ELSE b
Max2(a, b) == IF a >= b THEN a ELSE b

\* int() of a non-negative half-pixel value: truncation to whole pixels
Px(v2) == v2 \div 2

\* a ratio is <<n, d>> with d > 0
RatLT(a, b) == a[1] * b[2] < b[1] * a[2]
RatLE(a, b) == a[1] * b[2] <= b[1] * a[2]

-----------------------------------------------------------------------------
(* utils.py: geometry of a contour (four corners <<x, y>>, half-pixels) *)

XsOf(contour) == {contour[i][1] : i \in 1..4}
YsOf(contour) == {contour[i][2] : i \in 1..4}

get_contour_bounds(contour) ==
    [min_x |-> Px(SetMin(XsOf(contour))), max_x |-> Px(SetMax(XsOf(contour))),
     min_y |-> Px(SetMin(YsOf(contour))), max_y |-> Px(SetMax(YsOf(contour)))]

get_page_center_x(contour) ==
    (contour[1][1] + contour[2][1] + contour[3][1] + contour[4][1]) \div 8

get_page_width(contour) == Px(SetMax(XsOf(contour)) - SetMin(XsOf(contour)))

\* cv2.contourArea: the shoelace formula, unsigned.  In half-pixel units the
\* sum is eight times the area in square pixels.
Cross(p, q) == p[1] * q[2] - q[1] * p[2]
contourArea8(contour) ==
    Abs(Cross(contour[1], contour[2]) + Cross(contour[2], contour[3])
        + Cross(contour[3], contour[4]) + Cross(contour[4], contour[1]))

\* a contour is [some |-> BOOLEAN, pts |-> <<p1,p2,p3,p4>>]; some = FALSE is None
is_valid_contour_no_upper(contour, shape) ==
    /\ contour.some
    /\ 100 * contourArea8(contour.pts) >= 8 * MinAreaPct * (shape.h * shape.w)

is_valid_contour_min_half(contour, shape) ==
    /\ contour.some
    /\ 100 * contourArea8(contour.pts) >= 8 * 50 * (shape.h * shape.w)
    /\ 100 * contourArea8(contour.pts) <= 8 * MaxAreaPct * (shape.h * shape.w)

is_valid_contour(contour, shape) ==
    /\ contour.some
    /\ 100 * contourArea8(contour.pts) >= 8 * MinAreaPct * (shape.h * shape.w)
    /\ 100 * contourArea8(contour.pts) <= 8 * MaxAreaPct * (shape.h * shape.w)

page_covers_full_image_default(contour, shape, threshold_pct) ==
    /\ contour.some
    /\ 100 * contourArea8(contour.pts) >= 8 * DefaultCoveragePct * (shape.h * shape.w)

page_covers_full_image(contour, shape, threshold_pct) ==
    /\ contour.some
    /\ 100 * contourArea8(contour.pts) >= 8 * threshold_pct * (shape.h * shape.w)

calculate_fold_position_ratio_unclamped(fold_x, contour) ==
    LET b == get_contour_bounds(contour)
        page_width == b.max_x - b.min_x
    IN  IF page_width = 0 THEN <<1, 2>> ELSE <<fold_x - b.min_x, page_width>>

calculate_fold_position_ratio(fold_x, contour) ==
    LET b == get_contour_bounds(contour)
        page_width == b.max_x - b.min_x
        position == <<fold_x - b.min_x, page_width>>
    IN  IF page_width = 0 THEN <<1, 2>>
        ELSE IF RatLT(position, <<0, 1>>) THEN <<0, 1>>        \* max(0.0, ...)
        ELSE IF RatLT(<<1, 1>>, position) THEN <<1, 1>>        \* min(1.0, ...)
        ELSE position

-----------------------------------------------------------------------------
(* Values *)

Sides == <<"center", "left", "right">>

None == [some |-> FALSE, pts |-> <<>>]
Contour(pts) == [some |-> TRUE, pts |-> pts]

\* a fold estimate: fold_x (None when some = FALSE), quality, method
NoFold == [some |-> FALSE, x |-> 0, q |-> 0, method |-> "none"]
Fold(x, q, method) == [some |-> TRUE, x |-> x, q |-> q, method |-> method]

\* an image buffer: which pixels it holds and the columns [x0, x1) it keeps
NoImage == [kind |-> "none", x0 |-> 0, x1 |-> 0]
\* the array the caller handed in
Input(shape) == [kind |-> "input", x0 |-> 0, x1 |-> shape.w]
\* a copy of it that load_image made; warp_image's fresh output
Loaded(shape) == [kind |-> "loaded", x0 |-> 0, x1 |-> shape.w]
Warped(width) == [kind |-> "warped", x0 |-> 0, x1 |-> width]

BothPagesWarning == "Full book spread detected with both pages visible."
LowQualityWarning == "Fold detection quality low. Image not split into pages."
NoProcessorWarning == "Processing failed: No processor. Returning original image."

-----------------------------------------------------------------------------
(* fold_detection_hough.py: detect_fold_combined *)

\* utils.py detect_fold_brightness: the external brightness estimator's
\* (fold_x, quality) on this side; an exception inside it gives (None, 0.0)
detect_fold_brightness(img, side) == img.brightness[side]

\* detect_fold_hough_lines: what the line-cluster estimator returns on this side
detect_fold_hough_lines(img, side) == img.hough[side]

detect_fold_combined_prefers_brightness(img, side) ==
    LET b == detect_fold_brightness(img, side)
        h == detect_fold_hough_lines(img, side)
    IN  IF ~b.some /\ ~h.some THEN NoFold
        ELSE IF ~b.some THEN Fold(h.x, h.q, "hough")
        ELSE Fold(b.x, b.q, "brightness")

detect_fold_combined(img, side) ==
    LET b == detect_fold_brightness(img, side)
        h == detect_fold_hough_lines(img, side)
    IN  IF ~b.some /\ ~h.some THEN NoFold
        ELSE IF ~b.some THEN Fold(h.x, h.q, "hough")
        ELSE IF ~h.some THEN Fold(b.x, b.q, "brightness")
        ELSE IF b.q > h.q THEN Fold(b.x, b.q, "brightness")
        ELSE Fold(h.x, h.q, "hough")

-----------------------------------------------------------------------------
(* fold_detection_hough.py: the line-cluster estimator's clustering.  A       *)
(* segment is [id, x]: its place in the list handed in and its midpoint      *)
(* x = (x1 + x2) / 2 in half-pixels.  A threshold is a ratio in pixels.      *)

\* line 120: cluster_threshold = w * 0.02
cluster_threshold(w) == <<2 * w, 100>>

RECURSIVE SumX(_)
SumX(cluster) ==
    IF cluster = <<>> THEN 0 ELSE cluster[1].x + SumX(Tail(cluster))

\* lines 169-170: abs(line['x'] - np.mean([l['x'] for l in cluster])) <= threshold
within_threshold_strict(line, cluster, threshold) ==
    threshold[2] * Abs(line.x * Len(cluster) - SumX(cluster))
        < 2 * threshold[1] * Len(cluster)

within_threshold(line, cluster, threshold) ==
    threshold[2] * Abs(line.x * Len(cluster) - SumX(cluster))
        <= 2 * threshold[1] * Len(cluster)

\* sorted(lines, key=lambda x: x['x']): stable
RECURSIVE sorted_by_x(_)
sorted_by_x(lines) ==
    IF lines = <<>> THEN <<>>
    ELSE LET n == Len(lines)
             rest == sorted_by_x(SubSeq(lines, 1, n - 1))
             k == Cardinality({i \in 1..(n - 1) : rest[i].x <= lines[n].x})
         IN  SubSeq(rest, 1, k) \o <<lines[n]>> \o SubSeq(rest, k + 1, n - 1)

\* the body of the loop: the first cluster the line belongs to, or a new one
place_line(clusters, line, threshold) ==
    LET hits == {i \in 1..Len(clusters) : within_threshold(line, clusters[i], threshold)}
    IN  IF hits = {} THEN Append(clusters, <<line>>)
        ELSE [clusters EXCEPT ![SetMin(hits)] = Append(@, line)]

RECURSIVE place_lines(_, _, _)
place_lines(sorted, n, threshold) ==
    IF n = 0 THEN <<>>
    ELSE place_line(place_lines(sorted, n - 1, threshold), sorted[n], threshold)

_cluster_lines_by_position(lines, threshold) ==
    place_lines(sorted_by_x(lines), Len(lines), threshold)

\* line 87: angle_threshold = 15 (degrees from vertical)
AngleThreshold == 15

RECURSIVE SumOf(_, _)
SumOf(cluster, key) ==
    IF cluster = <<>> THEN 0 ELSE cluster[1][key] + SumOf(Tail(cluster), key)

\* The quality of a cluster of segments [length, angle] as a ratio:
\*   q_count  = min(num_lines / 5, 1.0)
\*   q_length = min(avg_length / img_height, 1.0)
\*   q_angle  = 1.0 - avg_angle / angle_threshold
\*   quality  = q_count * 0.4 + q_length * 0.4 + q_angle * 0.2
\* over the common denominator 25 * num_lines * img_height * angle_threshold.
_calculate_line_quality_unclamped_length(cluster, img_height, angle_threshold) ==
    LET num_lines == Len(cluster)
        sum_length == SumOf(cluster, "length")
        sum_angle == SumOf(cluster, "angle")
    IN  <<2 * Min2(num_lines, 5) * num_lines * img_height * angle_threshold
            + 10 * sum_length * angle_threshold
            + 5 * img_height * (angle_threshold * num_lines - sum_angle),
          25 * num_lines * img_height * angle_threshold>>

_calculate_line_quality(cluster, img_height, angle_threshold) ==
    LET num_lines == Len(cluster)
        sum_length == SumOf(cluster, "length")
        sum_angle == SumOf(cluster, "angle")
    IN  <<2 * Min2(num_lines, 5) * num_lines * img_height * angle_threshold
            + 10 * Min2(sum_length, num_lines * img_height) * angle_threshold
            + 5 * img_height * (angle_threshold * num_lines - sum_angle),
          25 * num_lines * img_height * angle_threshold>>

\* a quality as the model's folds carry it, in thousandths (rounded down)
Thousandths(q) == (1000 * q[1]) \div q[2]

-----------------------------------------------------------------------------
(* detectors.py: DocumentTypeDetector *)

\* the classifier's info dict; a key that is absent keeps its default here and
\* has_* says whether 'fold_ratio' / 'page_coverage' / 'warnings' is present
EmptyInfo ==
    [reason |-> "", has_ratio |-> FALSE, fold_ratio |-> <<0, 1>>,
     page_width |-> 0, page_center_x |-> 0, fold_side |-> "",
     has_coverage |-> FALSE, page_coverage |-> FALSE,
     has_warnings |-> FALSE, warnings |-> <<>>]

Classification(doc_type, confidence, info) ==
    [doc_type |-> doc_type, confidence |-> confidence, info |-> info]

_classify_book_spread(shape, page_contour, fold_quality, info) ==
    LET page_coverage == page_covers_full_image(page_contour, shape, CoveragePct)
        info1 == [info EXCEPT !.has_coverage = TRUE, !.page_coverage = page_coverage]
    IN  IF page_coverage
        THEN Classification("book_spread", fold_quality * 7,
                 [info1 EXCEPT !.has_warnings = TRUE,
                               !.warnings = <<BothPagesWarning>>])
        ELSE Classification("book_spread", fold_quality * 10, info1)

_classify_document_left_inclusive(quality_threshold, shape, page_contour, fold, fold_quality) ==
    IF ~fold.some \/ fold_quality < quality_threshold
    THEN Classification("single", SingleConfidence, EmptyInfo)
    ELSE
      LET fold_ratio == calculate_fold_position_ratio(fold.x, page_contour.pts)
          info == [EmptyInfo EXCEPT !.has_ratio = TRUE, !.fold_ratio = fold_ratio,
                      !.page_width = get_page_width(page_contour.pts),
                      !.page_center_x = get_page_center_x(page_contour.pts)]
      IN  IF RatLE(<<2, 5>>, fold_ratio) /\ RatLE(fold_ratio, <<3, 5>>)
          THEN _classify_book_spread(shape, page_contour, fold_quality, info)
          ELSE IF RatLE(fold_ratio, <<1, 5>>)
          THEN Classification("partial_left", fold_quality * 10,
                              [info EXCEPT !.fold_side = "left"])
          ELSE IF RatLT(<<4, 5>>, fold_ratio)
          THEN Classification("partial_right", fold_quality * 10,
                              [info EXCEPT !.fold_side = "right"])
          ELSE Classification("unknown", fold_quality * 5,
                              [info EXCEPT !.reason = "ambiguous_fold_position"])

_classify_document_full_confidence(quality_threshold, shape, page_contour, fold, fold_quality) ==
    IF ~fold.some \/ fold_quality < quality_threshold
    THEN Classification("single", SingleConfidence, EmptyInfo)
    ELSE
      LET fold_ratio == calculate_fold_position_ratio(fold.x, page_contour.pts)
          info == [EmptyInfo EXCEPT !.has_ratio = TRUE, !.fold_ratio = fold_ratio,
                      !.page_width = get_page_width(page_contour.pts),
                      !.page_center_x = get_page_center_x(page_contour.pts)]
      IN  IF RatLE(<<2, 5>>, fold_ratio) /\ RatLE(fold_ratio, <<3, 5>>)
          THEN _classify_book_spread(shape, page_contour, fold_quality, info)
          ELSE IF RatLT(fold_ratio, <<1, 5>>)
          THEN Classification("partial_left", fold_quality * 10,
                              [info EXCEPT !.fold_side = "left"])
          ELSE IF RatLT(<<4, 5>>, fold_ratio)
          THEN Classification("partial_right", fold_quality * 10,
                              [info EXCEPT !.fold_side = "right"])
          ELSE Classification("unknown", fold_quality * 10,
                              [info EXCEPT !.reason = "ambiguous_fold_position"])

_classify_document_sides_swapped(quality_threshold, shape, page_contour, fold, fold_quality) ==
    IF ~fold.some \/ fold_quality < quality_threshold
    THEN Classification("single", SingleConfidence, EmptyInfo)
    ELSE
      LET fold_ratio == calculate_fold_position_ratio(fold.x, page_contour.pts)
          info == [EmptyInfo EXCEPT !.has_ratio = TRUE, !.fold_ratio = fold_ratio,
                      !.page_width = get_page_width(page_contour.pts),
                      !.page_center_x = get_page_center_x(page_contour.pts)]
      IN  IF RatLE(<<2, 5>>, fold_ratio) /\ RatLE(fold_ratio, <<3, 5>>)
          THEN _classify_book_spread(shape, page_contour, fold_quality, info)
          ELSE IF RatLT(fold_ratio, <<1, 5>>)
          THEN Classification("partial_right", fold_quality * 10,
                              [info EXCEPT !.fold_side = "left"])
          ELSE IF RatLT(<<4, 5>>, fold_ratio)
          THEN Classification("partial_left", fold_quality * 10,
                              [info EXCEPT !.fold_side = "right"])
          ELSE Classification("unknown", fold_quality * 5,
                              [info EXCEPT !.reason = "ambiguous_fold_position"])

_classify_document_le_threshold(quality_threshold, shape, page_contour, fold, fold_quality) ==
    IF ~fold.some \/ fold_quality <= quality_threshold
    THEN Classification("single", SingleConfidence, EmptyInfo)
    ELSE
      LET fold_ratio == calculate_fold_position_ratio(fold.x, page_contour.pts)
          info == [EmptyInfo EXCEPT !.has_ratio = TRUE, !.fold_ratio = fold_ratio,
                      !.page_width = get_page_width(page_contour.pts),
                      !.page_center_x = get_page_center_x(page_contour.pts)]
      IN  IF RatLE(<<2, 5>>, fold_ratio) /\ RatLE(fold_ratio, <<3, 5>>)
          THEN _classify_book_spread(shape, page_contour, fold_quality, info)
          ELSE IF RatLT(fold_ratio, <<1, 5>>)
          THEN Classification("partial_left", fold_quality * 10,
                              [info EXCEPT !.fold_side = "left"])
          ELSE IF RatLT(<<4, 5>>, fold_ratio)
          THEN Classification("partial_right", fold_quality * 10,
                              [info EXCEPT !.fold_side = "right"])
          ELSE Classification("unknown", fold_quality * 5,
                              [info EXCEPT !.reason = "ambiguous_fold_position"])

_classify_document(quality_threshold, shape, page_contour, fold, fold_quality) ==
    IF ~fold.some \/ fold_quality < quality_threshold
    THEN Classification("single", SingleConfidence, EmptyInfo)
    ELSE
      LET fold_ratio == calculate_fold_position_ratio(fold.x, page_contour.pts)
          info == [EmptyInfo EXCEPT !.has_ratio = TRUE, !.fold_ratio = fold_ratio,
                      !.page_width = get_page_width(page_contour.pts),
                      !.page_center_x = get_page_center_x(page_contour.pts)]
      IN  IF RatLE(<<2, 5>>, fold_ratio) /\ RatLE(fold_ratio, <<3, 5>>)
          THEN _classify_book_spread(shape, page_contour, fold_quality, info)
          ELSE IF RatLT(fold_ratio, <<1, 5>>)
          THEN Classification("partial_left", fold_quality * 10,
                              [info EXCEPT !.fold_side = "left"])
          ELSE IF RatLT(<<4, 5>>, fold_ratio)
          THEN Classification("partial_right", fold_quality * 10,
                              [info EXCEPT !.fold_side = "right"])
          ELSE Classification("unknown", fold_quality * 5,
                              [info EXCEPT !.reason = "ambiguous_fold_position"])

\* utils.py detect_page_boundary: (contour, angle), or (None, None) when the
\* primitive found nothing or raised
detect_page_boundary(img) ==
    IF img.boundary.outcome = "found" /\ img.boundary.contour.some
    THEN [contour |-> img.boundary.contour, angle_some |-> img.boundary.angle_some]
    ELSE [contour |-> None, angle_some |-> FALSE]

\* max(detections, key=quality): the first element of highest quality
BestOf(detections) ==
    LET i == CHOOSE k \in 1..Len(detections) :
                 /\ \A j \in 1..Len(detections) : detections[j].q <= detections[k].q
                 /\ \A j \in 1..(k - 1) : detections[j].q < detections[k].q
    IN  detections[i]

\* Step 2 of detect: the three regions searched, the candidates kept, the best
BestFold(img) ==
    LET found == [i \in 1..3 |-> detect_fold_combined(img, Sides[i])]
        detections == SelectSeq(found, LAMBDA f : f.some)
    IN  IF detections = <<>> THEN NoFold ELSE BestOf(detections)

\* what detect() returns: raised, or (doc_type, confidence, metadata)
NoDetect ==
    [called |-> FALSE, raised |-> FALSE, error |-> "", doc_type |-> "",
     confidence |-> 0, fold |-> NoFold, has_contour |-> FALSE, info |-> EmptyInfo]
DetectRaised(msg) ==
    [called |-> TRUE, raised |-> TRUE, error |-> msg, doc_type |-> "", confidence |-> 0,
     fold |-> NoFold, has_contour |-> FALSE, info |-> EmptyInfo]
DetectReturn(c, fold, has_contour) ==
    [called |-> TRUE, raised |-> FALSE, error |-> "", doc_type |-> c.doc_type,
     confidence |-> c.confidence, fold |-> fold, has_contour |-> has_contour,
     info |-> c.info]

\* detect() from line 70 on: a valid boundary b was found
detect_fold_and_classify(cfg, img, b) ==
    IF cfg.debug /\ ~b.angle_some
    \* line 71: f"{angle:.2f}" with angle None raises TypeError
    THEN DetectRaised("unsupported format string passed to NoneType.__format__")
    ELSE LET fold == BestFold(img)
         IN  DetectReturn(
                 _classify_document(cfg.quality_threshold, img.shape,
                                    b.contour, fold, fold.q),
                 fold, TRUE)

NoPageBoundary ==
    DetectReturn(Classification("unknown", 0,
                     [EmptyInfo EXCEPT !.reason = "no_page_boundary"]), NoFold, FALSE)

detect_none_unchecked(cfg, img) ==
    LET b == detect_page_boundary(img)
    IN  IF b.contour.some /\ ~is_valid_contour(b.contour, img.shape)
        THEN NoPageBoundary
        ELSE IF ~b.contour.some
        THEN DetectReturn(Classification("single", SingleConfidence, EmptyInfo),
                          NoFold, FALSE)
        ELSE detect_fold_and_classify(cfg, img, b)

detect(cfg, img) ==
    LET b == detect_page_boundary(img)
    IN  IF ~b.contour.some \/ ~is_valid_contour(b.contour, img.shape)
        THEN NoPageBoundary
        ELSE detect_fold_and_classify(cfg, img, b)

-----------------------------------------------------------------------------
(* utils.py: perspective correction and the crops *)

NoMatrix == [some |-> FALSE, dx |-> 0]

\* img[:, a:b] of numpy on an image of `width` columns: a negative index counts
\* from the right end, an index past the end is cut to it
SliceIndex(width, i) == IF i < 0 THEN Max2(0, width + i) ELSE Min2(i, width)
Width(im) == im.x1 - im.x0
Columns(im, a, b) ==
    LET lo == SliceIndex(Width(im), a)
        hi == SliceIndex(Width(im), b)
    IN  [im EXCEPT !.x0 = im.x0 + lo, !.x1 = im.x0 + Max2(lo, hi)]

\* (warped, transform): warp_image's image, or (None, None) when it raised; the
\* transform returned is None in both cases
apply_perspective_correction(img) ==
    IF img.warp.ok
    THEN [warped |-> Warped(img.warp.w), transform_M |-> NoMatrix]
    ELSE [warped |-> NoImage, transform_M |-> NoMatrix]

split_at_fold_no_border(im, fold_x, fold_border) ==
    LET w == Width(im)
    IN  [left |-> Columns(im, 0, Min2(w, fold_x)),
         right |-> Columns(im, Max2(0, fold_x), w)]

split_at_fold(im, fold_x, fold_border) ==
    LET w == Width(im)
        left_end == Min2(w, fold_x + fold_border)
        right_start == Max2(0, fold_x - fold_border)
    IN  [left |-> Columns(im, 0, left_end), right |-> Columns(im, right_start, w)]

-----------------------------------------------------------------------------
(* processors.py.  process(cfg, buf, img, d): buf is the array handed to      *)
(* process(), img what the external primitives yield on it, d the metadata.  *)

ProcResult(im, success, method) ==
    [called |-> TRUE, processed_image |-> im, left_image |-> NoImage,
     right_image |-> NoImage, success |-> success, method |-> method,
     has_warnings |-> FALSE, warnings |-> <<>>, reason |-> "", error |-> ""]

NoProcess == [ProcResult(NoImage, FALSE, "") EXCEPT !.called = FALSE]

SingleDocumentProcessor_process_always_success(cfg, buf, img, d) ==
    LET pc0 == apply_perspective_correction(img)
    IN  IF pc0.warped = NoImage
        THEN [ProcResult(buf, TRUE, "fallback_original")
                 EXCEPT !.reason = "perspective_correction_failed"]
        ELSE ProcResult(pc0.warped, TRUE, "perspective_correction")

SingleDocumentProcessor_process(cfg, buf, img, d) ==
    LET pc0 == apply_perspective_correction(img)
    IN  IF pc0.warped = NoImage
        THEN [ProcResult(buf, FALSE, "fallback_original")
                 EXCEPT !.reason = "perspective_correction_failed"]
        ELSE ProcResult(pc0.warped, TRUE, "perspective_correction")

\* the 'warnings' list process() works on is the metadata's own list when the
\* metadata has one (metadata.get('warnings', [])), so ProcResult.warnings is
\* also the state that list is left in
BookSpreadProcessor_process_warns_on_fallback(cfg, buf, img, d) ==
    LET warnings == Append(d.info.warnings, LowQualityWarning)
        pc0 == apply_perspective_correction(img)
        withW(r) == [r EXCEPT !.has_warnings = TRUE, !.warnings = warnings]
    IN  IF pc0.warped = NoImage
        THEN withW([ProcResult(buf, FALSE, "fallback_original")
                 EXCEPT !.reason = "perspective_correction_failed"])
        ELSE withW([ProcResult(buf, FALSE, "fallback_original")
                 EXCEPT !.error = "perspectiveTransform: bad transform matrix"])

BookSpreadProcessor_process(cfg, buf, img, d) ==
    LET warnings == d.info.warnings
        pc0 == apply_perspective_correction(img)
        withW(r) == [r EXCEPT !.has_warnings = TRUE, !.warnings = warnings]
    IN  IF pc0.warped = NoImage
        THEN withW([ProcResult(buf, FALSE, "fallback_original")
                 EXCEPT !.reason = "perspective_correction_failed"])
        ELSE IF ~pc0.transform_M.some
        \* cv2.perspectiveTransform(fold_line, None) raises; caught at line 216
        THEN withW([ProcResult(buf, FALSE, "fallback_original")
                 EXCEPT !.error = "perspectiveTransform: bad transform matrix"])
        ELSE LET warped_fold_x == d.fold.x + pc0.transform_M.dx
             IN  IF d.fold.q < cfg.quality_threshold
                 THEN [ProcResult(pc0.warped, TRUE, "no_split_low_quality")
                          EXCEPT !.has_warnings = TRUE,
                                 !.warnings = Append(warnings, LowQualityWarning)]
                 ELSE LET s == split_at_fold(pc0.warped, warped_fold_x, cfg.fold_border)
                      IN  withW([ProcResult(pc0.warped, TRUE, "split_at_fold")
                                   EXCEPT !.left_image = s.left,
                                          !.right_image = s.right])

PartialBookProcessor_process_no_fallback(cfg, buf, img, d) ==
    LET pc0 == apply_perspective_correction(img)
        w == Width(pc0.warped)
    IN  IF d.info.fold_side = "left"
        THEN ProcResult(Columns(pc0.warped, w \div 4, w), TRUE, "crop_at_fold")
        ELSE ProcResult(Columns(pc0.warped, 0, (3 * w) \div 4), TRUE, "crop_at_fold")

PartialBookProcessor_process_at_fold(cfg, buf, img, d) ==
    LET pc0 == apply_perspective_correction(img)
        w == Width(pc0.warped)
    IN  IF pc0.warped = NoImage
        THEN [ProcResult(buf, FALSE, "fallback_original")
                 EXCEPT !.reason = "perspective_correction_failed"]
        ELSE IF d.info.fold_side = "left"
        THEN ProcResult(Columns(pc0.warped, Max2(0, d.fold.x - cfg.fold_border), w),
                        TRUE, "crop_at_fold")
        ELSE ProcResult(Columns(pc0.warped, 0, Min2(w, d.fold.x + cfg.fold_border)),
                        TRUE, "crop_at_fold")

PartialBookProcessor_process(cfg, buf, img, d) ==
    LET pc0 == apply_perspective_correction(img)
        w == Width(pc0.warped)
    IN  IF pc0.warped = NoImage
        THEN [ProcResult(buf, FALSE, "fallback_original")
                 EXCEPT !.reason = "perspective_correction_failed"]
        ELSE IF d.info.fold_side = "left"
        THEN ProcResult(Columns(pc0.warped, w \div 4, w), TRUE, "crop_at_fold")
        ELSE ProcResult(Columns(pc0.warped, 0, (3 * w) \div 4), TRUE, "crop_at_fold")

\* DocumentProcessor.__init__ is handed the scanner's own config dict and keeps
\* a reference to it; it reads the dict with .get and leaves it as it was
DocumentProcessor_init_raises_threshold(cfg) == [cfg EXCEPT !.quality_threshold = 950]

DocumentProcessor_init(cfg) == cfg

create_processor_partial_as_single(document_type) ==
    CASE document_type \in {"single", "partial_left", "partial_right"} -> "SingleDocumentProcessor"
      [] document_type = "book_spread" -> "BookSpreadProcessor"
      [] OTHER -> "None"

create_processor(document_type) ==
    CASE document_type = "single" -> "SingleDocumentProcessor"
      [] document_type = "book_spread" -> "BookSpreadProcessor"
      [] document_type \in {"partial_left", "partial_right"} -> "PartialBookProcessor"
      [] OTHER -> "None"

process(processor, cfg, buf, img, d) ==
    CASE processor = "SingleDocumentProcessor" -> SingleDocumentProcessor_process(cfg, buf, img, d)
      [] processor = "BookSpreadProcessor" -> BookSpreadProcessor_process(cfg, buf, img, d)
      [] OTHER -> PartialBookProcessor_process(cfg, buf, img, d)

-----------------------------------------------------------------------------
(* scanner.py: CamScanner *)

ScanResult(im, document_type, confidence, warnings, success) ==
    [processed_image |-> im, left_image |-> NoImage, right_image |-> NoImage,
     document_type |-> document_type, confidence |-> confidence,
     warnings |-> warnings, success |-> success,
     has_error |-> FALSE, error |-> "", reason |-> "", method |-> ""]

NoResult == ScanResult(NoImage, "", 0, <<>>, FALSE)

\* a pathlib.Path: parent directory, stem and suffix ("" for a directory name)
PathOf(parent, stem, suffix) == [parent |-> parent, stem |-> stem, suffix |-> suffix]
PathStr(path) == path.parent \o "/" \o path.stem \o path.suffix

\* one cv2.imwrite call
Write(path, im) == [path |-> path, image |-> im]

\* the directory, base name and extension save() uses for a split result
SplitTarget(output_path) ==
    IF output_path.suffix # ""
    THEN [output_dir |-> output_path.parent, base_name |-> output_path.stem,
          ext |-> output_path.suffix]
    ELSE [output_dir |-> PathStr(output_path), base_name |-> "page", ext |-> ".jpg"]

SidePath(target, side) ==
    target.output_dir \o "/" \o target.base_name \o "_" \o side \o target.ext

\* ScanResult.save: the imwrite calls it makes, in order
ScanResult_save_writes_all(r, output_path) ==
    (IF r.left_image # NoImage
     THEN <<Write(SidePath(SplitTarget(output_path), "left"), r.left_image)>> ELSE <<>>)
    \o (IF r.right_image # NoImage
        THEN <<Write(SidePath(SplitTarget(output_path), "right"), r.right_image)>> ELSE <<>>)
    \o (IF r.processed_image # NoImage
        THEN <<Write(PathStr(output_path), r.processed_image)>> ELSE <<>>)

ScanResult_save(r, output_path) ==
    IF r.left_image # NoImage \/ r.right_image # NoImage
    THEN (IF r.left_image # NoImage
          THEN <<Write(SidePath(SplitTarget(output_path), "left"), r.left_image)>>
          ELSE <<>>)
         \o (IF r.right_image # NoImage
             THEN <<Write(SidePath(SplitTarget(output_path), "right"), r.right_image)>>
             ELSE <<>>)
    ELSE IF r.processed_image # NoImage
    THEN <<Write(PathStr(output_path), r.processed_image)>>
    ELSE <<>>

\* load_image: a copy of the caller's array; raises on an input it cannot load
load_image_no_copy(img) == IF img.loadable THEN Input(img.shape) ELSE NoImage

load_image(img) == IF img.loadable THEN Loaded(img.shape) ELSE NoImage

_create_error_result_no_diagnostics(img, error_msg) ==
    ScanResult(load_image(img), "unknown", 0,
               <<"Error during processing: " \o error_msg>>, FALSE)

_create_error_result(img, error_msg) ==
    [ScanResult(load_image(img), "unknown", 0,
                <<"Error during processing: " \o error_msg>>, FALSE)
        EXCEPT !.has_error = TRUE, !.error = error_msg]

_create_fallback_result_reports_success(im, info, reason) ==
    [ScanResult(im, "unknown", 0, info.warnings, TRUE)
        EXCEPT !.reason = IF reason # "" THEN reason ELSE "detection_failed"]

\* reason is "" for reason=None
_create_fallback_result(im, info, reason) ==
    LET warnings == IF reason # "" THEN Append(info.warnings, NoProcessorWarning)
                    ELSE info.warnings
    IN  [ScanResult(im, "unknown", 0, warnings, FALSE)
            EXCEPT !.reason = IF reason # "" THEN reason ELSE "detection_failed"]

_create_result(p, doc_type, confidence, info) ==
    [ScanResult(p.processed_image, doc_type, confidence,
                info.warnings \o p.warnings, p.success)
        EXCEPT !.left_image = p.left_image, !.right_image = p.right_image,
               !.method = p.method]

\* scan(): what detect returned, the metadata as scan leaves it, what the
\* processor returned, the ScanResult, and self.config as scan leaves it
Outcome(d, info, p, r, cfg) ==
    [det |-> d, meta |-> info, proc |-> p, result |-> r, config |-> cfg]

\* scan() from line 221 on: processor p of the detected type was constructed on
\* the config (left as cfg1) and returned p from process()
scan_package(cfg1, d, processor, p) ==
    LET info == IF processor = "BookSpreadProcessor" /\ d.info.has_warnings
                THEN [d.info EXCEPT !.warnings = p.warnings]
                ELSE d.info
    IN  Outcome(d, info, p, _create_result(p, d.doc_type, d.confidence, info), cfg1)

scan_process(cfg1, im, img, d, processor) ==
    scan_package(cfg1, d, processor, process(processor, cfg1, im, img, d))

\* scan() from line 206 on: im is the loaded image, d what detect() returned
scan_detected(cfg, im, img, d) ==
    IF d.raised
    THEN Outcome(d, EmptyInfo, NoProcess, _create_error_result(img, d.error), cfg)
    ELSE IF d.doc_type = "unknown"
    THEN Outcome(d, d.info, NoProcess, _create_fallback_result(im, d.info, ""), cfg)
    ELSE IF create_processor(d.doc_type) = "None"
    THEN LET r == _create_fallback_result(im, d.info, "no_processor")
         IN  Outcome(d, IF d.info.has_warnings
                        THEN [d.info EXCEPT !.warnings = r.warnings]
                        ELSE d.info, NoProcess, r, cfg)
    ELSE scan_process(DocumentProcessor_init(cfg), im, img, d,
                      create_processor(d.doc_type))

scan(cfg, img) ==
    IF ~img.loadable
    THEN Outcome(NoDetect, EmptyInfo, NoProcess,
                 _create_error_result(img, "could not load image"), cfg)
    ELSE scan_detected(cfg, load_image(img), img, detect(cfg, img))

-----------------------------------------------------------------------------
(* The inputs: scanner configurations, images and what the external           *)
(* primitives yield on them                                                   *)

Configs ==
    {[debug |-> dbg, quality_threshold |-> DefaultQualityThreshold,
      fold_border |-> DefaultFoldBorder] : dbg \in BOOLEAN}

\* the photographs are 1920 x 1080
Shape == [w |-> 1920, h |-> 1080]

\* a rectangle given in whole pixels, corners clockwise, in half-pixel units
Rect(x0, y0, x1, y1) ==
    <<<<2 * x0, 2 * y0>>, <<2 * x1, 2 * y0>>, <<2 * x1, 2 * y1>>, <<2 * x0, 2 * y1>>>>

FullImageQuad == Rect(0, 0, Shape.w, Shape.h)
\* the full image with its top-left corner cut off: exactly 98% of the area
Quad98 == <<<<576, 0>>, <<3840, 0>>, <<3840, 2160>>, <<0, 576>>>>
Quad98Plus == <<<<576, 0>>, <<3840, 0>>, <<3840, 2160>>, <<0, 574>>>>
Quad85 == Rect(0, 0, 1632, 1080)
Quad85Minus == Rect(0, 0, 1920, 917)
Quad40 == Rect(0, 0, 1920, 432)
Quad10 == Rect(0, 0, 1920, 108)
Quad10Minus == Rect(0, 0, 1920, 107)
QuadInner == Rect(480, 0, 1440, 1080)
QuadSubPixel == <<<<961, 0>>, <<2881, 0>>, <<2881, 2160>>, <<961, 2160>>>>
QuadPoint == Rect(0, 0, 0, 0)

Quads ==
    {FullImageQuad, Quad98, Quad98Plus, Quad85, Quad85Minus, Quad40, Quad10,
     Quad10Minus, QuadInner, QuadSubPixel, QuadPoint}

Boundaries ==
    {[outcome |-> o, contour |-> None, angle_some |-> FALSE] : o \in {"raised", "none"}}
    \cup {[outcome |-> "found", contour |-> Contour(q), angle_some |-> a] :
             q \in Quads, a \in BOOLEAN}

\* what each estimator may report in each region (fold_x, quality)
BrightnessOutcomes(side) ==
    {NoFold} \cup
    CASE side = "center" -> {Fold(960, 900, "brightness"), Fold(768, 600, "brightness")}
      [] side = "left" -> {Fold(50, 900, "brightness"), Fold(384, 600, "brightness")}
      [] OTHER -> {Fold(1870, 900, "brightness"), Fold(1536, 500, "brightness")}

HoughOutcomes(side) ==
    {NoFold} \cup
    CASE side = "center" -> {Fold(960, 600, "hough")}
      [] side = "left" -> {Fold(50, 500, "hough"), Fold(384, 900, "hough")}
      [] OTHER -> {Fold(1870, 600, "hough")}

SideSet == {"center", "left", "right"}

FoldReports(Outcomes(_)) ==
    {f \in [SideSet -> UNION {Outcomes(sd) : sd \in SideSet}] :
        \A sd \in SideSet : f[sd] \in Outcomes(sd)}

WarpOutcomes ==
    {[ok |-> FALSE, w |-> 0], [ok |-> TRUE, w |-> 2221], [ok |-> TRUE, w |-> 2222]}

UnloadableImage ==
    [loadable |-> FALSE, shape |-> Shape,
     boundary |-> [outcome |-> "none", contour |-> None, angle_some |-> FALSE],
     brightness |-> [sd \in SideSet |-> NoFold], hough |-> [sd \in SideSet |-> NoFold],
     warp |-> [ok |-> FALSE, w |-> 0]]

Images ==
    {UnloadableImage} \cup
    {[loadable |-> TRUE, shape |-> Shape, boundary |-> b, brightness |-> fb,
      hough |-> fh, warp |-> wp] :
        b \in Boundaries, fb \in FoldReports(BrightnessOutcomes),
        fh \in FoldReports(HoughOutcomes), wp \in WarpOutcomes}

NoCall == [fn |-> "none"]

-----------------------------------------------------------------------------
(* The scanner: a CamScanner is constructed, then scan() is called on an image *)

Init ==
    /\ pc = 0
    /\ config \in Configs
    /\ image \in Images
    /\ det = NoDetect
    /\ meta = EmptyInfo
    /\ proc = NoProcess
    /\ result = NoResult
    /\ threads = <<>>
    /\ args = NoCall
    /\ ret = NoCall

Scan ==
    /\ pc < MaxScans
    /\ \E o \in {scan(config, image)} :
           /\ det' = o.det
           /\ meta' = o.meta
           /\ proc' = o.proc
           /\ result' = o.result
           /\ config' = o.config
    /\ pc' = pc + 1
    /\ UNCHANGED <<image, args, ret, threads>>

Next == Scan

Spec == Init /\ [][Next]_vars

-----------------------------------------------------------------------------
(* Direct calls of the classifier and of the ratio helper *)

Idle ==
    /\ pc = 0
    /\ config = [debug |-> FALSE, quality_threshold |-> DefaultQualityThreshold,
                 fold_border |-> DefaultFoldBorder]
    /\ image = UnloadableImage
    /\ det = NoDetect
    /\ meta = EmptyInfo
    /\ proc = NoProcess
    /\ result = NoResult
    /\ threads = <<>>
    /\ ret = NoCall

ClassifyShape == [w |-> 10, h |-> 20]

\* pages x0 .. x0 + width (x0 in half-pixels) by 0 .. y1, in a 10 x 20 image
ClassifyContours ==
    {Contour(<<<<x0, 0>>, <<x0 + 2 * wd, 0>>, <<x0 + 2 * wd, 2 * y1>>, <<x0, 2 * y1>>>>) :
        x0 \in 0..2, wd \in 0..MaxPageWidth, y1 \in {16, 17, 20}}

ClassifyFolds ==
    {NoFold} \cup
    {Fold(x, q, "brightness") : x \in (0 - 1)..(MaxPageWidth + 2), q \in {500, 600, 900}}

InitClassify ==
    /\ Idle
    /\ args \in {[fn |-> "_classify_document", quality_threshold |-> DefaultQualityThreshold,
                  shape |-> ClassifyShape, page_contour |-> c, fold |-> f] :
                    c \in ClassifyContours, f \in ClassifyFolds}

Classify ==
    /\ pc = 0
    /\ args.fn = "_classify_document"
    /\ ret' = _classify_document(args.quality_threshold, args.shape,
                                 args.page_contour, args.fold, args.fold.q)
    /\ pc' = 1
    /\ UNCHANGED <<config, image, det, meta, proc, result, args, threads>>

SpecClassify == InitClassify /\ [][Classify]_vars

RatioContours ==
    {<<<<a, 0>>, <<b, 0>>, <<c, 4>>, <<d, 4>>>> :
        a \in 0..MaxCoord, b \in 0..MaxCoord, c \in 0..MaxCoord, d \in 0..MaxCoord}

InitRatio ==
    /\ Idle
    /\ args \in {[fn |-> "calculate_fold_position_ratio", fold_x |-> x, contour |-> c] :
                    x \in (0 - 2)..MaxFoldX, c \in RatioContours}

Ratio ==
    /\ pc = 0
    /\ args.fn = "calculate_fold_position_ratio"
    /\ ret' = [ratio |-> calculate_fold_position_ratio(args.fold_x, args.contour)]
    /\ pc' = 1
    /\ UNCHANGED <<config, image, det, meta, proc, result, args, threads>>

SpecRatio == InitRatio /\ [][Ratio]_vars

-----------------------------------------------------------------------------
(* Direct calls of the processors: processor.process(img, **metadata) *)

Processors == {"SingleDocumentProcessor", "BookSpreadProcessor", "PartialBookProcessor"}

\* warp_image raises, or gives a corrected image of some width
ProcessWarps ==
    {[ok |-> FALSE, w |-> 0]} \cup {[ok |-> TRUE, w |-> w] : w \in 1..MaxWarpWidth}
    \cup {[ok |-> TRUE, w |-> 2221]}

ProcessFolds == {Fold(x, q, "brightness") : x \in {0, 3, 960}, q \in {500, 600, 900}}

\* the keyword arguments: metadata['warnings'] is absent, or the classifier's list
ProcessWarnings ==
    {[has_warnings |-> FALSE, warnings |-> <<>>],
     [has_warnings |-> TRUE, warnings |-> <<BothPagesWarning>>]}

\* what the primitives yield on the array handed to process()
ProcessImage(a) == [UnloadableImage EXCEPT !.loadable = TRUE, !.warp = a.warp]

\* the metadata process() is called with
ProcessMetadata(a) ==
    [NoDetect EXCEPT !.called = TRUE, !.has_contour = TRUE, !.fold = a.fold,
        !.info = [EmptyInfo EXCEPT !.fold_side = a.fold_side,
                                   !.has_warnings = a.metadata.has_warnings,
                                   !.warnings = a.metadata.warnings]]

InitProcess ==
    /\ Idle
    /\ args \in {[fn |-> "process", processor |-> p, buf |-> Input(Shape), warp |-> wp,
                  fold |-> f, fold_side |-> sd, metadata |-> m] :
                    p \in Processors, wp \in ProcessWarps, f \in ProcessFolds,
                    sd \in {"left", "right"}, m \in ProcessWarnings}

Process ==
    /\ pc = 0
    /\ args.fn = "process"
    /\ ret' = process(args.processor, DocumentProcessor_init(config), args.buf,
                      ProcessImage(args), ProcessMetadata(args))
    /\ pc' = 1
    /\ UNCHANGED <<config, image, det, meta, proc, result, args, threads>>

SpecProcess == InitProcess /\ [][Process]_vars

-----------------------------------------------------------------------------
(* Direct calls of split_at_fold *)

InitSplit ==
    /\ Idle
    /\ args \in {[fn |-> "split_at_fold", img |-> Warped(w), fold_x |-> x,
                  fold_border |-> b] :
                    w \in 1..MaxSplitWidth,
                    x \in (0 - (MaxSplitWidth + MaxSplitBorder))..(2 * MaxSplitWidth + MaxSplitBorder),
                    b \in 0..MaxSplitBorder}

Split ==
    /\ pc = 0
    /\ args.fn = "split_at_fold"
    /\ ret' = split_at_fold(args.img, args.fold_x, args.fold_border)
    /\ pc' = 1
    /\ UNCHANGED <<config, image, det, meta, proc, result, args, threads>>

SpecSplit == InitSplit /\ [][Split]_vars

-----------------------------------------------------------------------------
(* Direct calls of ScanResult.save *)

SaveImages(kind) ==
    {NoImage} \cup
    CASE kind = "processed" -> {Loaded(Shape), Warped(2221)}
      [] kind = "left" -> {Columns(Warped(2221), 0, 1260), Columns(Warped(2221), 0, 2221)}
      [] OTHER -> {Columns(Warped(2221), 960, 2221), Columns(Warped(2221), 0, 2221)}

SaveResults ==
    {[ScanResult(p, "book_spread", DefaultQualityThreshold * 10, <<>>, TRUE)
         EXCEPT !.left_image = l, !.right_image = r] :
        p \in SaveImages("processed"), l \in SaveImages("left"), r \in SaveImages("right")}

SavePaths ==
    {PathOf("out", "scan", ".jpg"), PathOf("out", "scan", ".png"),
     PathOf("out/book", "page_007", ".jpg"), PathOf(".", "out", ""),
     PathOf("out", "pages", "")}

InitSave ==
    /\ Idle
    /\ args \in {[fn |-> "save", result |-> r, output_path |-> path] :
                    r \in SaveResults, path \in SavePaths}

Save ==
    /\ pc = 0
    /\ args.fn = "save"
    /\ ret' = [written |-> ScanResult_save(args.result, args.output_path)]
    /\ pc' = 1
    /\ UNCHANGED <<config, image, det, meta, proc, result, args, threads>>

SpecSave == InitSave /\ [][Save]_vars

-----------------------------------------------------------------------------
(* Direct calls of _cluster_lines_by_position *)

\* the widths of the images the segments come from: thresholds 1, 2 and 2.5 px
ClusterWidths == {50, 100, 125}

LineLists ==
    UNION {[1..n -> 0..MaxLineX] : n \in 1..MaxLines}

Lines(xs) == [i \in 1..Len(xs) |-> [id |-> i, x |-> xs[i]]]

InitCluster ==
    /\ Idle
    /\ args \in {[fn |-> "_cluster_lines_by_position", lines |-> Lines(xs),
                  threshold |-> cluster_threshold(w)] :
                    xs \in LineLists, w \in ClusterWidths}

Cluster ==
    /\ pc = 0
    /\ args.fn = "_cluster_lines_by_position"
    /\ ret' = [clusters |-> _cluster_lines_by_position(args.lines, args.threshold)]
    /\ pc' = 1
    /\ UNCHANGED <<config, image, det, meta, proc, result, args, threads>>

SpecCluster == InitCluster /\ [][Cluster]_vars

-----------------------------------------------------------------------------
(* Direct calls of _calculate_line_quality on a cluster of segments that      *)
(* passed the filter angle <= angle_threshold (lines 100-109), followed by    *)
(* the classification of a fold of that quality.                             *)

\* [length, angle] of a retained segment: shorter and longer than the heights
\* below, perfectly vertical up to the largest angle the filter lets through
SegmentKinds ==
    {[length |-> 1, angle |-> 0], [length |-> 1, angle |-> AngleThreshold],
     [length |-> 3, angle |-> 8],
     [length |-> 6, angle |-> 0], [length |-> 6, angle |-> AngleThreshold]}

QualityClusters ==
    UNION {[1..n -> SegmentKinds] : n \in 1..MaxClusterLines}

QualityHeights == {4, 6}

InitQuality ==
    /\ Idle
    /\ args \in {[fn |-> "_calculate_line_quality", cluster |-> c, img_height |-> h,
                  angle_threshold |-> AngleThreshold] :
                    c \in QualityClusters, h \in QualityHeights}

\* the confidences _classify_document gives a fold of quality q
\* for a page over the whole 10 x 20 image and one over its upper 80%
QualityContours ==
    {Contour(<<<<0, 0>>, <<20, 0>>, <<20, 2 * y1>>, <<0, 2 * y1>>>>) : y1 \in {16, 20}}

ConfidencesOf(q) ==
    {_classify_document(DefaultQualityThreshold, ClassifyShape, c, f, f.q).confidence :
        c \in QualityContours,
        f \in {NoFold} \cup {Fold(x, q, "hough") : x \in 0..10}}

Quality ==
    /\ pc = 0
    /\ args.fn = "_calculate_line_quality"
    /\ \E q \in {_calculate_line_quality(args.cluster, args.img_height,
                                          args.angle_threshold)} :
          ret' = [quality |-> q, confidences |-> ConfidencesOf(Thousandths(q))]
    /\ pc' = 1
    /\ UNCHANGED <<config, image, det, meta, proc, result, args, threads>>

SpecQuality == InitQuality /\ [][Quality]_vars

-----------------------------------------------------------------------------
(* Callers running scan() at the same time on one CamScanner.  Each caller    *)
(* runs the statements of scan() in order; the callers share self.config    *)
(* (the dict the detector was built on and every processor is built on).    *)

Threads == 1..MaxThreads

NoFolds == [sd \in SideSet |-> NoFold]
Found(quad, angle_some) ==
    [outcome |-> "found", contour |-> Contour(quad), angle_some |-> angle_some]
BrightFold(side, f) == [NoFolds EXCEPT ![side] = f]
WarpOk == [ok |-> TRUE, w |-> 2221]
WarpFails == [ok |-> FALSE, w |-> 0]
ImageWith(b, fb, wp) ==
    [loadable |-> TRUE, shape |-> Shape, boundary |-> b, brightness |-> fb,
     hough |-> NoFolds, warp |-> wp]

\* one image for each path through scan()
ConcurrentImages ==
    {UnloadableImage,
     ImageWith([outcome |-> "none", contour |-> None, angle_some |-> FALSE], NoFolds, WarpOk),
     ImageWith(Found(Quad85, FALSE), NoFolds, WarpOk),
     ImageWith(Found(Quad85, TRUE), NoFolds, WarpFails),
     ImageWith(Found(Quad85, TRUE), BrightFold("center", Fold(960, 900, "brightness")), WarpOk),
     ImageWith(Found(Quad85, TRUE), BrightFold("left", Fold(50, 900, "brightness")), WarpOk),
     ImageWith(Found(Quad85, TRUE), BrightFold("left", Fold(384, 600, "brightness")), WarpOk),
     ImageWith(Found(Quad85, TRUE), BrightFold("right", Fold(1870, 900, "brightness")), WarpFails)}

\* a caller: where it is in scan(), the config scan() was entered with, its
\* image, its locals img / (doc_type, confidence, metadata) / processor /
\* result, the ScanResult it returned, the calls it has made so far, and
\* whether another caller was inside scan() when this one entered
Caller(img) ==
    [at |-> "called", overlapped |-> FALSE, cfg0 |-> [debug |-> FALSE, quality_threshold |-> 0, fold_border |-> 0],
     image |-> img, im |-> NoImage, det |-> NoDetect, processor |-> "None",
     pcfg |-> [debug |-> FALSE, quality_threshold |-> 0, fold_border |-> 0],
     proc |-> NoProcess, result |-> NoResult, trace |-> <<>>]

Called(c, fn, on) == [c EXCEPT !.trace = Append(@, [call |-> fn, on |-> on])]
Returns(c, fn, r) == [Called(c, fn, "") EXCEPT !.at = "done", !.result = r]

InitConcurrent ==
    /\ pc = 0
    /\ config \in Configs
    /\ image = UnloadableImage
    /\ det = NoDetect
    /\ meta = EmptyInfo
    /\ proc = NoProcess
    /\ result = NoResult
    /\ args = NoCall
    /\ ret = NoCall
    /\ threads \in [Threads -> {Caller(img) : img \in ConcurrentImages}]

\* line 197: img = load_image(image)
Load(t) ==
    /\ threads[t].at = "called"
    /\ \E c \in {Called([threads[t] EXCEPT !.cfg0 = config,
                                !.overlapped = \E u \in Threads \ {t} :
                                    threads[u].at \notin {"called", "done"}],
                         "load_image", "")} :
          threads' = [threads EXCEPT ![t] =
              IF ~c.image.loadable
              THEN Returns(c, "_create_error_result",
                           _create_error_result(c.image, "could not load image"))
              ELSE [c EXCEPT !.at = "loaded", !.im = load_image(c.image)]]
    /\ UNCHANGED <<pc, config, image, det, meta, proc, result, args, ret>>

\* lines 204-211: self.detector.detect(img), and the return for 'unknown'
Detect(t) ==
    /\ threads[t].at = "loaded"
    /\ \E c \in {Called(threads[t], "detect", "")}, d \in {detect(config, threads[t].image)} :
          threads' = [threads EXCEPT ![t] =
              IF d.raised
              THEN Returns(c, "_create_error_result", _create_error_result(c.image, d.error))
              ELSE IF d.doc_type = "unknown"
              THEN Returns([c EXCEPT !.det = d], "_create_fallback_result",
                           _create_fallback_result(c.im, d.info, ""))
              ELSE [c EXCEPT !.at = "classified", !.det = d]]
    /\ UNCHANGED <<pc, config, image, det, meta, proc, result, args, ret>>

\* lines 214-218: create_processor(doc_type, self.config)
CreateProcessor(t) ==
    /\ threads[t].at = "classified"
    /\ \E c \in {Called(threads[t], "create_processor", "")},
          processor \in {create_processor(threads[t].det.doc_type)} :
          IF processor = "None"
          THEN /\ threads' = [threads EXCEPT ![t] =
                     Returns(c, "_create_fallback_result",
                             _create_fallback_result(c.im, c.det.info, "no_processor"))]
               /\ config' = config
          ELSE /\ threads' = [threads EXCEPT ![t] =
                     [c EXCEPT !.at = "created", !.processor = processor,
                               !.pcfg = DocumentProcessor_init(config)]]
               /\ config' = DocumentProcessor_init(config)
    /\ UNCHANGED <<pc, image, det, meta, proc, result, args, ret>>

\* line 221: processor.process(img, **metadata)
RunProcess(t) ==
    /\ threads[t].at = "created"
    /\ \E c \in {Called(threads[t], "process", threads[t].processor)} :
          threads' = [threads EXCEPT ![t] =
              [c EXCEPT !.at = "processed",
                        !.proc = process(c.processor, c.pcfg, c.im, c.image, c.det)]]
    /\ UNCHANGED <<pc, config, image, det, meta, proc, result, args, ret>>

\* line 224: self._create_result(img, result, doc_type, confidence, metadata)
Package(t) ==
    /\ threads[t].at = "processed"
    /\ \E c \in {threads[t]} :
          threads' = [threads EXCEPT ![t] =
              Returns(c, "_create_result",
                      scan_package(c.pcfg, c.det, c.processor, c.proc).result)]
    /\ UNCHANGED <<pc, config, image, det, meta, proc, result, args, ret>>

NextConcurrent ==
    \E t \in Threads :
        Load(t) \/ Detect(t) \/ CreateProcessor(t) \/ RunProcess(t) \/ Package(t)

SpecConcurrent == InitConcurrent /\ [][NextConcurrent]_vars

-----------------------------------------------------------------------------
(* Properties of scan() and detect(), checked under Spec *)

DocTypes == {"single", "book_spread", "partial_left", "partial_right", "unknown"}

Returned == pc > 0

\* the boundary primitive gave a quadrilateral
HasQuad == image.loadable /\ image.boundary.outcome = "found" /\ image.boundary.contour.some

ImageArea == image.shape.w * image.shape.h
QuadArea8 == contourArea8(image.boundary.contour.pts)
\* the quadrilateral covers at least / at most pct percent of the image
CoversAtLeast(pct) == 100 * QuadArea8 >= 8 * pct * ImageArea
CoversAtMost(pct) == 100 * QuadArea8 <= 8 * pct * ImageArea
AreaInRange == CoversAtLeast(10) /\ CoversAtMost(98)

\* the fold the arbitration yields on the image, and whether it reaches the threshold
WinningFold == BestFold(image)
FoldTrusted == WinningFold.some /\ WinningFold.q >= config.quality_threshold

\* a step of the scan raised: the loader, or detect()
StepRaised == ~image.loadable \/ det.raised

IsErrorResult(r) ==
    /\ r.document_type = "unknown"
    /\ ~r.success
    /\ r.confidence = 0
    /\ r.has_error
    /\ r.error # ""

\* C1: scan() always returns a ScanResult, and when a step of the scan raised
\* the result is document_type 'unknown', success false, confidence 0.0, with
\* the error message recorded in debug_info['error'].
C1_ScanReturnsErrorResult ==
    Returned =>
        /\ result.document_type \in DocTypes
        /\ StepRaised =>
              /\ IsErrorResult(result)
              /\ det.raised => result.error = det.error
              /\ result.warnings = <<"Error during processing: " \o result.error>>
        /\ result.has_error => StepRaised

C1_Witness ==
    /\ Returned
    /\ det.raised
    /\ IsErrorResult(result)
    /\ result.processed_image = Loaded(image.shape)

\* C2: when boundary detection yields no quadrilateral (the primitive found
\* none, or failed internally), scan() returns 'unknown' with success false,
\* whatever the fold estimators report.
C2_NoBoundaryIsUnknown ==
    (Returned /\ image.loadable /\ ~HasQuad) =>
        /\ result.document_type = "unknown"
        /\ ~result.success
        /\ ~result.has_error

C2_Witness ==
    /\ Returned
    /\ image.loadable
    /\ image.boundary.outcome = "raised"
    /\ FoldTrusted
    /\ result.document_type = "unknown"
    /\ ~result.success

\* C3: for an image with a valid boundary quadrilateral and no fold candidate or
\* a winning fold below the threshold, the scan reports 'single' with
\* confidence exactly 0.8.
C3_NoFoldIsSingle ==
    (Returned /\ HasQuad /\ AreaInRange /\ ~FoldTrusted) =>
        /\ result.document_type = "single"
        /\ result.confidence = 8000

\* C8: a quadrilateral gets past the boundary check only when its area is
\* between 10% and 98% of the image area, both ends included; one outside that
\* range is handled exactly as an absent boundary: 'unknown', confidence 0,
\* whatever the fold estimators report.
C8_AreaRangeDecidesValidity ==
    (Returned /\ HasQuad) =>
        /\ AreaInRange <=> (det.raised \/ det.has_contour)
        /\ ~AreaInRange =>
              /\ det = detect(config, [image EXCEPT !.boundary =
                           [outcome |-> "none", contour |-> None, angle_some |-> FALSE]])
              /\ det.doc_type = "unknown" /\ det.confidence = 0
              /\ det.info.reason = "no_page_boundary"
              /\ result.document_type = "unknown" /\ result.confidence = 0
              /\ ~result.success

C8_Witness ==
    /\ Returned
    /\ HasQuad
    /\ ~CoversAtMost(98)
    /\ FoldTrusted
    /\ det.doc_type = "unknown"
    /\ det.confidence = 0

\* the quadrilateral covers exactly 40% of the image area
Covers40 == HasQuad /\ CoversAtLeast(40) /\ CoversAtMost(40)

\* C9 as stated: a quadrilateral covering 40% of the image fails the area check
\* and is classified 'unknown' with confidence 0.
C9_Original_FortyPercentIsUnknown ==
    (Returned /\ Covers40 /\ ~det.raised) =>
        /\ det.doc_type = "unknown"
        /\ det.confidence = 0
        /\ det.info.reason = "no_page_boundary"

\* C9 (amended): a quadrilateral covering 40% of the image passes the area
\* check; the classification is never the no-boundary 'unknown', and whenever
\* detect() returns one it is decided by the fold: 'single' with confidence 0.8
\* when no fold reaches the threshold, otherwise the zone of the winning fold
\* with a confidence above 0.
C9_FortyPercentIsValid ==
    (Returned /\ Covers40) =>
        /\ det.info.reason # "no_page_boundary"
        /\ ~det.raised =>
              /\ det.has_contour
              /\ det.fold = WinningFold
              /\ ~FoldTrusted => (det.doc_type = "single" /\ det.confidence = 8000)
              /\ FoldTrusted =>
                    /\ det.doc_type \in DocTypes \ {"single"}
                    /\ det.confidence > 0
                    /\ det.info.has_ratio

C9_Witness ==
    /\ Returned
    /\ Covers40
    /\ FoldTrusted
    /\ det.doc_type = "book_spread"
    /\ result.document_type = "book_spread"

IsFullImage == HasQuad /\ image.boundary.contour.pts = Rect(0, 0, image.shape.w, image.shape.h)
SpansFullWidth ==
    /\ HasQuad
    /\ get_contour_bounds(image.boundary.contour.pts).min_x = 0
    /\ get_contour_bounds(image.boundary.contour.pts).max_x = image.shape.w

\* C10 as stated: with the boundary quadrilateral equal to the full 1920 px
\* wide image and a fold at or above threshold, a fold at x=960 gives
\* 'book_spread' and a fold at x=50 gives 'partial_left' with fold_side 'left'.
C10_Original_FullImageClassifiedByFold ==
    (Returned /\ IsFullImage /\ image.shape.w = 1920 /\ FoldTrusted) =>
        /\ WinningFold.x = 960 => det.doc_type = "book_spread"
        /\ WinningFold.x = 50 =>
              (det.doc_type = "partial_left" /\ det.info.fold_side = "left")

\* C10 (amended): a quadrilateral equal to the full image covers more than 98%
\* of it, so it fails the area check and the classification is 'unknown' with
\* confidence 0 whatever the fold.  For a valid quadrilateral that spans the
\* full 1920 px width, a classification detect() returns for a fold at or above
\* threshold is 'book_spread' at x=960 and 'partial_left' with fold_side
\* 'left' at x=50.
C10_FullImageRejected ==
    Returned =>
        /\ IsFullImage =>
              /\ ~det.raised
              /\ det.doc_type = "unknown" /\ det.confidence = 0
              /\ det.info.reason = "no_page_boundary"
        /\ (SpansFullWidth /\ AreaInRange /\ image.shape.w = 1920
              /\ FoldTrusted /\ ~det.raised) =>
              /\ WinningFold.x = 960 => det.doc_type = "book_spread"
              /\ WinningFold.x = 50 =>
                    (det.doc_type = "partial_left" /\ det.info.fold_side = "left")

C10_Witness ==
    /\ Returned
    /\ IsFullImage
    /\ image.shape.w = 1920
    /\ FoldTrusted
    /\ WinningFold.x = 960
    /\ det.doc_type = "unknown"

-----------------------------------------------------------------------------
(* Properties of _classify_document, checked under SpecClassify *)

Classified == pc > 0 /\ args.fn = "_classify_document"
ArgFoldTrusted == args.fold.some /\ args.fold.q >= args.quality_threshold
RatioOf == ret.info.fold_ratio

\* C4: for a fold at or above threshold every fold_ratio lies in [0,1] and falls
\* in exactly one zone: below 0.2 partial_left, [0.2, 0.4) unknown, [0.4, 0.6]
\* book_spread, (0.6, 0.8] unknown, above 0.8 partial_right.
C4_ZonesPartitionRatio ==
    (Classified /\ ArgFoldTrusted) =>
        /\ ret.info.has_ratio
        /\ RatioOf = calculate_fold_position_ratio(args.fold.x, args.page_contour.pts)
        /\ RatLE(<<0, 1>>, RatioOf) /\ RatLE(RatioOf, <<1, 1>>)
        /\ RatLT(RatioOf, <<1, 5>>) <=> ret.doc_type = "partial_left"
        /\ (RatLE(<<2, 5>>, RatioOf) /\ RatLE(RatioOf, <<3, 5>>))
              <=> ret.doc_type = "book_spread"
        /\ RatLT(<<4, 5>>, RatioOf) <=> ret.doc_type = "partial_right"
        /\ ((RatLE(<<1, 5>>, RatioOf) /\ RatLT(RatioOf, <<2, 5>>))
              \/ (RatLT(<<3, 5>>, RatioOf) /\ RatLE(RatioOf, <<4, 5>>)))
              <=> ret.doc_type = "unknown"

C4_Witness ==
    /\ Classified
    /\ ArgFoldTrusted
    /\ RatLE(RatioOf, <<1, 5>>) /\ RatLE(<<1, 5>>, RatioOf)
    /\ ret.doc_type = "unknown"

\* C5: partial_left carries confidence = fold quality and fold_side 'left',
\* partial_right carries confidence = fold quality and fold_side 'right', and
\* the ambiguous-band 'unknown' carries confidence = fold quality * 0.5 and the
\* reason 'ambiguous fold position'.
C5_PartialAndAmbiguousConfidence ==
    Classified =>
        /\ ret.doc_type = "partial_left" =>
              (ret.confidence = args.fold.q * 10 /\ ret.info.fold_side = "left")
        /\ ret.doc_type = "partial_right" =>
              (ret.confidence = args.fold.q * 10 /\ ret.info.fold_side = "right")
        /\ ret.doc_type = "unknown" =>
              /\ 2 * ret.confidence = args.fold.q * 10
              /\ ret.info.reason = "ambiguous_fold_position"
              /\ ret.info.fold_side = ""

C5_Witness ==
    /\ Classified
    /\ ret.doc_type = "unknown"
    /\ args.fold.q = 900
    /\ ret.confidence = 4500
    /\ ret.info.reason = "ambiguous_fold_position"

ArgArea8 == contourArea8(args.page_contour.pts)
ArgCoversAtLeast(pct) == 100 * ArgArea8 >= 8 * pct * (args.shape.w * args.shape.h)

\* C6: a book_spread whose quadrilateral covers at least 85% of the image
\* carries the both-pages-visible warning and confidence = fold quality * 0.7;
\* one that covers less carries no warning and confidence = fold quality.
C6_BookSpreadCoverage ==
    (Classified /\ ret.doc_type = "book_spread") =>
        /\ ret.info.has_coverage
        /\ ArgCoversAtLeast(85) =>
              /\ ret.info.has_warnings
              /\ ret.info.warnings = <<BothPagesWarning>>
              /\ 10 * ret.confidence = 7 * (args.fold.q * 10)
        /\ ~ArgCoversAtLeast(85) =>
              /\ ~ret.info.has_warnings
              /\ ret.info.warnings = <<>>
              /\ ret.confidence = args.fold.q * 10

C6_Witness ==
    /\ Classified
    /\ ret.doc_type = "book_spread"
    /\ ArgCoversAtLeast(85) /\ ~ArgCoversAtLeast(86)
    /\ ret.info.warnings = <<BothPagesWarning>>
    /\ ret.confidence = 6300

\* C30: a fold whose quality equals quality_threshold is trusted: it is
\* classified by its position zone (book_spread, partial_left, partial_right
\* or ambiguous 'unknown') and never as 'single'; 'single' is returned exactly
\* when the fold is absent or its quality is strictly below the threshold.
C30_ThresholdQualityIsTrusted ==
    Classified =>
        /\ ret.doc_type = "single"
              <=> (~args.fold.some \/ args.fold.q < args.quality_threshold)
        /\ (args.fold.some /\ args.fold.q = args.quality_threshold) =>
              /\ ret.doc_type \in {"book_spread", "partial_left", "partial_right", "unknown"}
              /\ ret.info.has_ratio
              /\ ret.doc_type = "unknown" => ret.info.reason = "ambiguous_fold_position"

\* a fold of quality exactly the threshold in the middle of the page is
\* classified book_spread
C30_Witness ==
    /\ Classified
    /\ args.fold.some
    /\ args.fold.q = args.quality_threshold
    /\ ret.doc_type = "book_spread"

-----------------------------------------------------------------------------
(* Properties of calculate_fold_position_ratio, checked under SpecRatio *)

RatioCalled == pc > 0 /\ args.fn = "calculate_fold_position_ratio"
ArgMinX == get_contour_bounds(args.contour).min_x
ArgMaxX == get_contour_bounds(args.contour).max_x
RatEq(a, b) == a[1] * b[2] = b[1] * a[2]
InUnitInterval(r) == r[2] > 0 /\ RatLE(<<0, 1>>, r) /\ RatLE(r, <<1, 1>>)

\* C7 as stated: for every fold_x and every quadrilateral the result is in
\* [0,1], 0 when fold_x is left of min_x, 1 when it is right of max_x, and
\* (fold_x - min_x) / (max_x - min_x) in between.
C7_Original_RatioClamped ==
    RatioCalled =>
        /\ InUnitInterval(ret.ratio)
        /\ args.fold_x < ArgMinX => RatEq(ret.ratio, <<0, 1>>)
        /\ args.fold_x > ArgMaxX => RatEq(ret.ratio, <<1, 1>>)
        /\ (ArgMinX <= args.fold_x /\ args.fold_x <= ArgMaxX) =>
              ret.ratio[1] * (ArgMaxX - ArgMinX) = (args.fold_x - ArgMinX) * ret.ratio[2]

\* C7 (amended): the result is always in [0,1].  With min_x and max_x the
\* bounds get_contour_bounds gives: for max_x > min_x it is 0 when fold_x is
\* left of min_x, 1 when it is right of max_x, and
\* (fold_x - min_x) / (max_x - min_x) in between; for a quadrilateral of zero
\* width (max_x = min_x) it is 0.5 for every fold_x.
C7_RatioClampedOrHalf ==
    RatioCalled =>
        /\ InUnitInterval(ret.ratio)
        /\ ArgMaxX = ArgMinX => RatEq(ret.ratio, <<1, 2>>)
        /\ ArgMaxX > ArgMinX =>
              /\ args.fold_x < ArgMinX => RatEq(ret.ratio, <<0, 1>>)
              /\ args.fold_x > ArgMaxX => RatEq(ret.ratio, <<1, 1>>)
              /\ (ArgMinX <= args.fold_x /\ args.fold_x <= ArgMaxX) =>
                    /\ ret.ratio[2] = ArgMaxX - ArgMinX
                    /\ ret.ratio[1] = args.fold_x - ArgMinX

C7_Witness ==
    /\ RatioCalled
    /\ ArgMaxX = ArgMinX
    /\ args.fold_x < ArgMinX
    /\ ret.ratio = <<1, 2>>

-----------------------------------------------------------------------------
(* Properties of the processors, checked under SpecProcess *)

ProcessCalled == pc > 0 /\ args.fn = "process"

\* the corrected image warp_image gives on the array handed to process()
Corrected == apply_perspective_correction(ProcessImage(args))
CorrectionSucceeded == Corrected.warped # NoImage

\* process() reaches cv2.perspectiveTransform with transform_M = None
TransformRaises ==
    /\ args.processor = "BookSpreadProcessor"
    /\ CorrectionSucceeded
    /\ ~Corrected.transform_M.some

IsFallback(r, buf) ==
    /\ r.processed_image = buf
    /\ ~r.success
    /\ r.method = "fallback_original"
    /\ r.reason # "" \/ r.error # ""
    /\ r.left_image = NoImage
    /\ r.right_image = NoImage

\* C11: a book-spread processor given a fold quality at or above threshold,
\* on an image whose perspective correction succeeds, returns success=true
\* with left_image = columns [0, fold_x + fold_border) and right_image =
\* columns [fold_x - fold_border, width) of the corrected image, for the fold
\* position fold_x in corrected-image coordinates.
C11_BookSpreadSplits ==
    (/\ ProcessCalled
     /\ args.processor = "BookSpreadProcessor"
     /\ args.fold.q >= config.quality_threshold
     /\ CorrectionSucceeded)
    => /\ ret.success
       /\ ret.processed_image = Corrected.warped
       /\ \E fold_x \in 0..Width(Corrected.warped) :
              /\ ret.left_image =
                     Columns(Corrected.warped, 0,
                             Min2(Width(Corrected.warped), fold_x + config.fold_border))
              /\ ret.right_image =
                     Columns(Corrected.warped, Max2(0, fold_x - config.fold_border),
                             Width(Corrected.warped))

\* C12: a book-spread processor given a fold quality below quality_threshold,
\* on an image whose perspective correction succeeds, returns the corrected
\* image unsplit with success=true, method 'no_split_low_quality' and the
\* low-quality warning appended to the warnings.
C12_LowQualityUnsplit ==
    (/\ ProcessCalled
     /\ args.processor = "BookSpreadProcessor"
     /\ args.fold.q < config.quality_threshold
     /\ CorrectionSucceeded)
    => /\ ret.success
       /\ ret.method = "no_split_low_quality"
       /\ ret.processed_image = Corrected.warped
       /\ ret.left_image = NoImage
       /\ ret.right_image = NoImage
       /\ ret.warnings = Append(args.metadata.warnings, LowQualityWarning)

\* C15: each of the three processors returns a result from every call; when
\* perspective correction gives no image, or a step inside process() raises,
\* the result holds the array process() was handed as processed_image, with
\* success false, method 'fallback_original' and a reason or an error text.
C15_FailureFallsBackToOriginal ==
    ProcessCalled =>
        /\ ret.called
        /\ ~CorrectionSucceeded =>
              IsFallback(ret, args.buf) /\ ret.reason = "perspective_correction_failed"
        /\ TransformRaises => IsFallback(ret, args.buf) /\ ret.error # ""
        /\ ret.method = "fallback_original" => IsFallback(ret, args.buf)

C15_Witness ==
    /\ ProcessCalled
    /\ args.processor = "PartialBookProcessor"
    /\ ~CorrectionSucceeded
    /\ IsFallback(ret, args.buf)

\* C16: the single-document processor never produces a left or right image,
\* reports success exactly when perspective correction returned an image, and
\* on success its processed_image is the corrected image.
C16_SingleCorrectsOnly ==
    (ProcessCalled /\ args.processor = "SingleDocumentProcessor") =>
        /\ ret.left_image = NoImage
        /\ ret.right_image = NoImage
        /\ ret.success <=> CorrectionSucceeded
        /\ ret.success =>
              /\ ret.processed_image = Corrected.warped
              /\ ret.method = "perspective_correction"

C16_Witness ==
    /\ ProcessCalled
    /\ args.processor = "SingleDocumentProcessor"
    /\ CorrectionSucceeded
    /\ ret.success
    /\ ret.processed_image = Warped(args.warp.w)

-----------------------------------------------------------------------------
(* Properties of split_at_fold, checked under SpecSplit *)

SplitCalled == pc > 0 /\ args.fn = "split_at_fold"
SplitWidth == Width(args.img)
LeftWidth == Width(ret.left)
RightWidth == Width(ret.right)
\* both crops stay within the image
SplitWithinBounds ==
    0 <= args.fold_x - args.fold_border /\ args.fold_x + args.fold_border <= SplitWidth

\* C13 as stated: for every width w, fold_x and fold_border b the two widths
\* add up to more than w whenever b > 0, and to w + 2*b whenever
\* 0 <= fold_x - b and fold_x + b <= w.
C13_Original_SplitOverlaps ==
    SplitCalled =>
        /\ args.fold_border > 0 => LeftWidth + RightWidth > SplitWidth
        /\ SplitWithinBounds =>
              LeftWidth + RightWidth = SplitWidth + 2 * args.fold_border

\* C13 (amended): the left image has min(w, fold_x + b) columns (a negative
\* fold_x + b counts from the right end: max(0, w + fold_x + b) columns), the
\* right image has w - min(w, max(0, fold_x - b)) columns; the widths add up
\* to more than w whenever b > 0 and the band [fold_x - b, fold_x + b) meets
\* the image (0 < fold_x + b and fold_x - b < w), and to w + 2*b whenever
\* 0 <= fold_x - b and fold_x + b <= w.
C13_SplitWidths ==
    SplitCalled =>
        LET w == SplitWidth
            x == args.fold_x
            b == args.fold_border
        IN  /\ LeftWidth = IF x + b >= 0 THEN Min2(w, x + b) ELSE Max2(0, w + x + b)
            /\ RightWidth = w - Min2(w, Max2(0, x - b))
            /\ (b > 0 /\ 0 < x + b /\ x - b < w) => LeftWidth + RightWidth > w
            /\ SplitWithinBounds => LeftWidth + RightWidth = w + 2 * b
            /\ (x - b >= w \/ x + b = 0) => LeftWidth + RightWidth = w

C13_Witness ==
    /\ SplitCalled
    /\ args.fold_border > 0
    /\ SplitWithinBounds
    /\ ret.left = Columns(args.img, 0, args.fold_x + args.fold_border)
    /\ ret.right = Columns(args.img, args.fold_x - args.fold_border, SplitWidth)
    /\ LeftWidth + RightWidth = SplitWidth + 2 * args.fold_border

-----------------------------------------------------------------------------
(* Properties of whole scans, checked under Spec *)

\* detect() returned a classification in the last scan
Detected == Returned /\ det.called /\ ~det.raised

IsPartial == det.doc_type \in {"partial_left", "partial_right"}

\* columns [a, b) of the corrected image
CorrectedColumns(a, b) == [kind |-> "warped", x0 |-> a, x1 |-> b]

C17_RescanIdentical ==
    [][(pc >= 1 /\ pc' = pc + 1) =>
          /\ result'.document_type = result.document_type
          /\ result'.confidence = result.confidence
          /\ result'.warnings = result.warnings
          /\ config' = config
          /\ image' = image]_vars

C17_Witness ==
    /\ pc = 2
    /\ result.document_type = "book_spread"
    /\ result.warnings # <<>>
    /\ proc.called

\* what scan() returns on the same image with the debug option flipped
WithDebugFlipped == scan([config EXCEPT !.debug = ~config.debug], image).result

\* C18: scan() with debug=true returns the same document_type, confidence,
\* success flag, warnings and images as scan() with debug=false, for every
\* image and every outcome of the external primitives.
C18_DebugChangesNothing ==
    Returned =>
        /\ result.document_type = WithDebugFlipped.document_type
        /\ result.confidence = WithDebugFlipped.confidence
        /\ result.success = WithDebugFlipped.success
        /\ result.warnings = WithDebugFlipped.warnings
        /\ result.processed_image = WithDebugFlipped.processed_image
        /\ result.left_image = WithDebugFlipped.left_image
        /\ result.right_image = WithDebugFlipped.right_image

\* C19: from the return of detect() to the return of scan() the
\* classification is not modified: the metadata (fold ratio and side,
\* warnings list) is as detect() returned it, the list a processor reports is
\* that same list with the same elements,
\* and a document that was processed is reported with the classifier's type
\* and confidence.
C19_ClassificationNotModified ==
    Detected =>
        /\ meta = det.info
        /\ (proc.called /\ proc.has_warnings) => proc.warnings = det.info.warnings
        /\ proc.called =>
              /\ result.document_type = det.doc_type
              /\ result.confidence = det.confidence

C19_Witness ==
    /\ Detected
    /\ det.doc_type = "book_spread"
    /\ det.info.has_warnings
    /\ proc.called
    /\ proc.has_warnings
    /\ meta.warnings = <<BothPagesWarning>>

\* the candidates the two estimators produced in the three regions
Candidates ==
    {f \in {image.brightness[sd] : sd \in SideSet} \cup {image.hough[sd] : sd \in SideSet} :
        f.some}

\* C23: the fold detect() settles on is a candidate of maximum quality: its
\* quality is at least that of every candidate either estimator produced in
\* any region, and it is 'no fold' with quality 0 exactly when no estimator
\* produced a candidate.
C23_WinnerHasMaximumQuality ==
    (Detected /\ det.has_contour) =>
        /\ \A f \in Candidates : det.fold.some /\ det.fold.q >= f.q
        /\ det.fold.some =>
              \E f \in Candidates : f.x = det.fold.x /\ f.q = det.fold.q
        /\ Candidates = {} => det.fold = NoFold /\ det.fold.q = 0

C23_Witness ==
    /\ Detected
    /\ det.has_contour
    /\ image.brightness["center"].some
    /\ image.brightness["left"] = Fold(384, 600, "brightness")
    /\ image.hough["left"] = Fold(384, 900, "hough")
    /\ image.hough["right"].some
    /\ det.fold = Fold(384, 900, "hough")

\* the images a ScanResult holds
OutputImages(r) == {r.processed_image, r.left_image, r.right_image}

\* C20: scan() leaves the caller's image as it was, and no image of the
\* result is the caller's own array: the result holds the copy load_image
\* made, or an image derived from it (nothing when the input cannot be loaded).
C20_InputNeverAliased ==
    /\ [][image' = image]_vars
    /\ [](Returned =>
             /\ \A im \in OutputImages(result) : im.kind # "input"
             /\ image.loadable => result.processed_image.kind \in {"loaded", "warped"}
             /\ ~image.loadable => result.processed_image = NoImage
             /\ proc.called => proc.processed_image.kind \in {"loaded", "warped"})

C20_Witness ==
    /\ Returned
    /\ image.loadable
    /\ proc.called
    /\ ~proc.success
    /\ result.processed_image = Loaded(image.shape)

\* C27: in every ScanResult returned by scan(), 'unknown' comes with success
\* false and confidence 0.0, success true comes with one of the four document
\* types, and a result with success false holds no transformed image: no left
\* or right page, and as processed_image the loaded original, or none when
\* the input could not be loaded.
C27_ResultFieldsAgree ==
    Returned =>
        /\ result.document_type = "unknown" => (~result.success /\ result.confidence = 0)
        /\ result.success =>
              result.document_type \in {"single", "book_spread", "partial_left", "partial_right"}
        /\ ~result.success =>
              /\ result.left_image = NoImage
              /\ result.right_image = NoImage
              /\ result.processed_image =
                    (IF image.loadable THEN Loaded(image.shape) ELSE NoImage)

\* a scan classified 'single', the perspective correction failed, and the
\* result has success false with the loaded original as processed_image
C27_Witness ==
    /\ Returned
    /\ result.document_type = "single"
    /\ proc.called
    /\ ~result.success
    /\ result.processed_image = Loaded(image.shape)

\* C28: for every scan that finishes without an internal exception the
\* document_type and confidence of the ScanResult equal the type and
\* confidence the classifier returned; an ambiguous-band classification is
\* reported with confidence fold quality times 0.5.
C28_ResultReportsTheClassification ==
    (Returned /\ Detected) =>
        /\ result.document_type = det.doc_type
        /\ result.confidence = det.confidence

\* C29: the warnings of a ScanResult hold each warning emitted during the scan
\* exactly once: a warning of the classifier is not repeated when the
\* classifier's and the processor's warnings are accumulated.
C29_EachWarningOnce ==
    Returned =>
        \A i \in 1..Len(result.warnings), j \in 1..Len(result.warnings) :
            result.warnings[i] = result.warnings[j] => i = j

-----------------------------------------------------------------------------
(* Properties of concurrent scans, checked under SpecConcurrent *)

Done(t) == threads[t].at = "done"
Entered(t) == threads[t].at # "called"

\* C21: while callers run scan() at the same time on one scanner, the
\* scanner's configuration is never written, and under every interleaving a
\* caller's scan returns the result the same scan returns when run alone.
C21_ConcurrentScansIndependent ==
    \A t \in Threads :
        /\ Entered(t) => config = threads[t].cfg0
        /\ Done(t) => threads[t].result = scan(threads[t].cfg0, threads[t].image).result

C21_Witness ==
    \E t \in Threads, u \in Threads :
        /\ t # u
        /\ Done(t)
        /\ Done(u)
        /\ threads[u].overlapped
        /\ threads[t].result.document_type = "book_spread"
        /\ threads[u].result.document_type = "single"

-----------------------------------------------------------------------------
(* Properties of ScanResult.save, checked under SpecSave *)

SaveCalled == pc > 0 /\ args.fn = "save"
HasLeft == args.result.left_image # NoImage
HasRight == args.result.right_image # NoImage
HasProcessed == args.result.processed_image # NoImage
WrittenPaths == {ret.written[i].path : i \in 1..Len(ret.written)}

\* str is the base name save() builds for the destination, followed by tail
EndsWith(str, tail) == \E head \in {args.output_path.parent \o "/" \o args.output_path.stem,
                                      PathStr(args.output_path) \o "/page"} :
                          str = head \o tail

-----------------------------------------------------------------------------
(* Properties of _cluster_lines_by_position (SpecCluster) *)

Clustered == pc > 0 /\ args.fn = "_cluster_lines_by_position"
Segments == {args.lines[i] : i \in 1..Len(args.lines)}
Places == {<<c, k>> \in (1..MaxLines + 1) \X (1..MaxLines + 1) :
              c <= Len(ret.clusters) /\ k <= Len(ret.clusters[c])}
PlacesOf(l) == {pl \in Places : ret.clusters[pl[1]][pl[2]] = l}
ClusterOf(l) == (CHOOSE pl \in PlacesOf(l) : TRUE)[1]

\* the midpoints of a and b are no farther apart than the threshold
Near(a, b) == args.threshold[2] * Abs(a.x - b.x) <= 2 * args.threshold[1]

\* l is no farther than the threshold from the mean of the first n segments of cluster c
NearMean(l, c, n) ==
    args.threshold[2] * Abs(l.x * n - SumX(SubSeq(ret.clusters[c], 1, n)))
        <= 2 * args.threshold[1] * n

\* a comes before b in the order the segments are visited: by x, ties by place in the list
Before(a, b) == a.x < b.x \/ (a.x = b.x /\ a.id < b.id)

InExactlyOneCluster ==
    /\ \A l \in Segments : Cardinality(PlacesOf(l)) = 1
    /\ \A pl \in Places : ret.clusters[pl[1]][pl[2]] \in Segments

\* C24 as stated: any two segments whose midpoints are within the threshold
\* (2% of the image width) of each other are in the same cluster, and every
\* segment is in exactly one cluster.
C24_NearSegmentsShareACluster ==
    Clustered =>
        /\ InExactlyOneCluster
        /\ \A a \in Segments, b \in Segments :
              Near(a, b) => ClusterOf(a) = ClusterOf(b)

\* C24: every segment is in exactly one cluster and no cluster is empty; the
\* clusters are consecutive runs of the segments in x order; a segment joins
\* the cluster before it exactly when its midpoint is within the threshold of
\* the mean midpoint of the segments already in that cluster, and otherwise
\* opens a new cluster; hence a segment within the threshold of the first
\* segment of a cluster, and not before it, is in that cluster.
C24_ClustersAreRunsGrownByTheirMean ==
    Clustered =>
        /\ InExactlyOneCluster
        /\ \A c \in 1..Len(ret.clusters) : ret.clusters[c] # <<>>
        /\ \A pa \in Places, pb \in Places :
              (pa[1] < pb[1] \/ (pa[1] = pb[1] /\ pa[2] < pb[2]))
                  => Before(ret.clusters[pa[1]][pa[2]], ret.clusters[pb[1]][pb[2]])
        /\ \A pl \in Places :
              /\ pl[2] > 1 => NearMean(ret.clusters[pl[1]][pl[2]], pl[1], pl[2] - 1)
              /\ (pl[2] = 1 /\ pl[1] > 1)
                    => ~NearMean(ret.clusters[pl[1]][1], pl[1] - 1,
                                 Len(ret.clusters[pl[1] - 1]))
        /\ \A l \in Segments, c \in 1..Len(ret.clusters) :
              (Near(l, ret.clusters[c][1]) /\ ~Before(l, ret.clusters[c][1]))
                  => ClusterOf(l) = c

\* a cluster grew past its first segment, and two segments within the
\* threshold of each other ended in different clusters
C24_Witness ==
    /\ Clustered
    /\ \E c \in 1..Len(ret.clusters) : Len(ret.clusters[c]) >= 2
    /\ \E a \in Segments, b \in Segments :
          Near(a, b) /\ ClusterOf(a) # ClusterOf(b)

-----------------------------------------------------------------------------
(* Properties of _calculate_line_quality (SpecQuality) *)

QualityComputed == pc > 0 /\ args.fn = "_calculate_line_quality"

\* quality * tenths / 10 lies in [0, 1]
ScaledInUnit(tenths) ==
    /\ ret.quality[2] > 0
    /\ 0 <= ret.quality[1] * tenths
    /\ ret.quality[1] * tenths <= ret.quality[2] * 10

\* C25: for every non-empty cluster of segments that passed the 15-degree
\* filter the quality 0.4*min(count/5,1) + 0.4*min(avg_length/height,1) +
\* 0.2*(1 - avg_angle/15) lies in [0,1], and so do the confidences derived
\* from it: quality, quality*0.7, quality*0.5, 0.8 and 0.
C25_QualityInUnitInterval ==
    QualityComputed =>
        /\ ScaledInUnit(10)
        /\ ScaledInUnit(7)
        /\ ScaledInUnit(5)
        /\ \A c \in ret.confidences : 0 <= c /\ c <= 10000

\* a cluster of more than five segments, longer on average than the image is
\* high and all vertical: each component saturates and the quality is 1
C25_Witness ==
    /\ QualityComputed
    /\ Len(args.cluster) > 5
    /\ SumOf(args.cluster, "length") > Len(args.cluster) * args.img_height
    /\ ret.quality[1] = ret.quality[2]
    /\ 10000 \in ret.confidences
    /\ 7000 \in ret.confidences
    /\ 5000 \in ret.confidences

-----------------------------------------------------------------------------
(* Properties of the order of calls within a scan (SpecConcurrent) *)

Calls(t, fn) == {i \in 1..Len(threads[t].trace) : threads[t].trace[i].call = fn}

\* detect() returned a classification of one of the four processable types
ClassifiedProcessable(t) ==
    threads[t].det.doc_type \in {"single", "book_spread", "partial_left", "partial_right"}

\* the processor registered for a document type (processors.py, processors dict)
Registered(document_type) ==
    IF document_type = "single" THEN "SingleDocumentProcessor"
    ELSE IF document_type = "book_spread" THEN "BookSpreadProcessor"
    ELSE "PartialBookProcessor"

\* C26 as stated: in each scan() call process() is invoked on exactly one
\* processor, after classification.
C26_EveryScanCallsProcessOnce ==
    \A t \in Threads :
        Done(t) => Cardinality(Calls(t, "process")) = 1

\* C26: in each scan() call process() is invoked at most once; it is invoked
\* exactly once when the classifier returned single, book_spread, partial_left
\* or partial_right, and then after detect() and create_processor() and on the
\* processor registered for the classified type; it is not invoked when the
\* classification is 'unknown' or when loading or detect() raised.
C26_ProcessCalledOnceOnRegisteredProcessor ==
    \A t \in Threads :
        /\ Cardinality(Calls(t, "process")) <= 1
        /\ Cardinality(Calls(t, "detect")) <= 1
        /\ \A i \in Calls(t, "process") :
              /\ ClassifiedProcessable(t)
              /\ \E j \in Calls(t, "detect"), k \in Calls(t, "create_processor") :
                    j < k /\ k < i
              /\ threads[t].trace[i].on = Registered(threads[t].det.doc_type)
        /\ Done(t) => (Calls(t, "process") # {} <=> ClassifiedProcessable(t))

\* two scans ran to the end: one classified book_spread and called
\* process() on the book-spread processor, the other classified 'unknown'
\* and called no processor
C26_Witness ==
    \E t \in Threads, u \in Threads :
        /\ Done(t) /\ Done(u)
        /\ threads[t].det.doc_type = "book_spread"
        /\ \E i \in Calls(t, "process") : threads[t].trace[i].on = "BookSpreadProcessor"
        /\ threads[u].det.called /\ threads[u].det.doc_type = "unknown"
        /\ Calls(u, "process") = {}

====
